---------------------------- MODULE Spec2Model ----------------------------
(***************************************************************************)
(* Model of the transcription pipeline of audio2text                      *)
(* (src/resources/transcribe_standalone.py, class Audio2TextTranscriber). *)
(*                                                                         *)
(* Python values are modelled as follows.                                  *)
(*   dict        a function from key strings to values; {} is EmptyDict    *)
(*   None        the distinguished record None                             *)
(*   str         a sequence of string tokens (concatenation is \o)         *)
(*   float secs  an integer number of ticks, Scale ticks to the second     *)
(*   set(...)    iteration order is hash order: a permutation of the       *)
(*               labels that the environment picks                         *)
(***************************************************************************)
EXTENDS Integers, Sequences, FiniteSets, TLC

VARIABLES
    MLX_AVAILABLE,          \* module flag, line 40/43
    WHISPERX_AVAILABLE,     \* module flag, line 66/69
    LIBROSA_AVAILABLE,      \* module flag, line 49/51
    DIARIZATION_AVAILABLE,  \* module flag, line 57/60
    language,               \* self.language
    whisperx_model,         \* self.whisperx_model (None or "model")
    diarization_pipeline,   \* self.diarization_pipeline (None or "pipeline")
    files,                  \* audio files that exist on disk (paths)
    outputFile,             \* the file at output_path: [exists, content]
    audio_path,             \* argument: the input, with what is on disk
    output_format,          \* argument
    include_speakers,       \* argument
    pc,                     \* position inside transcribe_file
    processed_audio_path,   \* local of transcribe_file
    audio_data,             \* local: [rate, channels] of the loaded audio
    result,                 \* local
    engine_used,            \* local
    diarization,            \* what the diarization pipeline returned
    formatted_result,       \* local
    exc,                    \* the exception in flight (None if none)
    outcome,                \* the value transcribe_file returns
    trace                   \* history: the external steps taken, in order

vars == << MLX_AVAILABLE, WHISPERX_AVAILABLE, LIBROSA_AVAILABLE,
           DIARIZATION_AVAILABLE, language, whisperx_model,
           diarization_pipeline, files, outputFile, audio_path,
           output_format, include_speakers, pc, processed_audio_path,
           audio_data, result, engine_used, diarization, formatted_result,
           exc, outcome, trace >>

envVars == << MLX_AVAILABLE, WHISPERX_AVAILABLE, LIBROSA_AVAILABLE,
              DIARIZATION_AVAILABLE, language >>

argVars == << audio_path, output_format, include_speakers >>

-----------------------------------------------------------------------------
(* Bounds of the model *)

\* longest diarization output explored by the merge specification
MaxTurns == 3

\* segment and turn boundaries explored by the merge specification: 0..MaxTime
MaxTime == 3

\* the number of transcribe_file calls made on one transcriber
MaxCalls == 2

\* the number of threads that call transcribe_file on one transcriber
MaxThreads == 2

\* segments of a result rendered as json
MaxSegments == 2

-----------------------------------------------------------------------------
(* Python values *)

None == [isNone |-> TRUE]

EmptyDict == [k \in {} |-> 0]

\* bool(x) for x None or a dict
Truthy(x) == x # None /\ DOMAIN x # {}

\* d[k] = v on a dict
DictSet(d, k, v) == (k :> v) @@ d

\* float seconds are named by their decimal form (what repr shows), counted
\* in ticks of 1/Scale second: t ticks stand for the float nearest to t/Scale
Scale == 10000

Sec(n) == n * Scale

Range(s) == { s[i] : i \in DOMAIN s }

RECURSIVE Flatten(_)
\* "".join(parts)
Flatten(parts) ==
    IF parts = <<>> THEN <<>> ELSE Head(parts) \o Flatten(Tail(parts))

RECURSIVE Join(_, _)
\* sep.join(parts), each part and sep a token sequence
Join(sep, parts) ==
    IF parts = <<>> THEN <<>>
    ELSE IF Len(parts) = 1 THEN Head(parts)
    ELSE Head(parts) \o sep \o Join(sep, Tail(parts))

\* str.strip() on the texts the engines of the model return
Strip(s) ==
    CASE s = " hello" -> "hello"
      [] s = " world " -> "world"
      [] OTHER -> s

-----------------------------------------------------------------------------
(* Output formatting: format_output and format_timestamp_srt *)

Digit == << "0", "1", "2", "3", "4", "5", "6", "7", "8", "9" >>

RECURSIVE Decimal(_)
\* str(n) for n >= 0, one token per digit
Decimal(n) ==
    IF n < 10 THEN << Digit[n + 1] >>
    ELSE Decimal(n \div 10) \o << Digit[(n % 10) + 1] >>

RECURSIVE Pad(_, _)
\* f"{n:0wd}": at least w digits, zero-padded on the left
Pad(n, w) ==
    LET d == Decimal(n)
    IN  IF Len(d) >= w THEN d ELSE << "0" >> \o Pad(n, w - 1)

\* the number of significant bits of a Python float (IEEE 754 binary64)
Precision == 53

RECURSIVE BitLen(_)
\* n.bit_length()
BitLen(n) == IF n = 0 THEN 0 ELSE 1 + BitLen(n \div 2)

\* a binary fraction is kept as a sequence of digits of LimbBits bits each,
\* the most significant first
LimbBits == 11

RECURSIVE Pow2(_)
Pow2(n) == IF n = 0 THEN 1 ELSE 2 * Pow2(n - 1)

Base == Pow2(LimbBits)

\* bit j after the point (j = 1 is the half) of the fraction with these digits
Bit(limbs, j) ==
    (limbs[((j - 1) \div LimbBits) + 1]
        \div Pow2(LimbBits - 1 - ((j - 1) % LimbBits))) % 2

\* what is left of r/Scale after each of its first n digits, in units of
\* Base^-i / Scale (0 <= r < Scale)
Remainders(r, n) ==
    LET rem[i \in 0..n] == IF i = 0 THEN r ELSE (Base * rem[i - 1]) % Scale
    IN  rem

\* the first n digits after the point of r/Scale
Expand(r, n) ==
    LET rem == Remainders(r, n)
    IN  [i \in 1..n |-> (Base * rem[i - 1]) \div Scale]

RECURSIVE LeadingZeros(_)
\* the number of zero bits before the first one bit of r/Scale (0 < r < Scale)
LeadingZeros(r) == IF 2 * r >= Scale THEN 0 ELSE 1 + LeadingZeros(2 * r)

\* the digits plus u (0 < u < Base) in the last digit, and the carry out
AddLast(limbs, u) ==
    LET n    == Len(limbs)
        sum  == limbs[n] + u
        room == { i \in 1..(n - 1) : limbs[i] < Base - 1 }
        at   == CHOOSE i \in room : \A j \in room : j <= i
    IN  IF sum < Base
        THEN [carry |-> 0, limbs |-> [limbs EXCEPT ![n] = sum]]
        ELSE IF room = {}
        THEN [carry |-> 1,
              limbs |-> [i \in 1..n |-> IF i = n THEN sum - Base ELSE 0]]
        ELSE [carry |-> 0,
              limbs |-> [i \in 1..n |->
                            IF i < at THEN limbs[i]
                            ELSE IF i = at THEN limbs[i] + 1
                            ELSE IF i = n THEN sum - Base ELSE 0]]

\* the float a segment time of t ticks is: the binary64 number nearest to
\* t/Scale (ties to even), as its whole part and the digits after the point.
\* It has n bits after the point; the digits hold pad more bits, all zero.
Double(t) ==
    LET whole == t \div Scale
        r     == t % Scale
        n     == IF r = 0 THEN 0
                 ELSE IF whole > 0 THEN Precision - BitLen(whole)
                 ELSE LeadingZeros(r) + Precision
        len   == (n + LimbBits - 1) \div LimbBits
        pad   == len * LimbBits - n
        raw   == Expand(r, len)
        low   == raw[len] % Pow2(pad)
        kept  == [raw EXCEPT ![len] = raw[len] - low]
        \* what is cut off, and half a unit of the last bit kept
        cut   == low * Scale + Remainders(r, len)[len]
        half  == Pow2(pad) * (Scale \div 2)
        up    == \/ cut > half
                 \/ cut = half /\ (raw[len] \div Pow2(pad)) % 2 = 1
        inc   == AddLast(kept, Pow2(pad))
    IN  IF n = 0 THEN [whole |-> whole, limbs |-> << >>]
        ELSE IF up THEN [whole |-> whole + inc.carry, limbs |-> inc.limbs]
        ELSE [whole |-> whole, limbs |-> kept]

\* k times the fraction with these digits, exactly: the whole part of the
\* product (carry) and the digits after the point
Product(k, limbs) ==
    LET n == Len(limbs)
        c[i \in 1..(n + 1)] ==
            IF i = n + 1 THEN 0 ELSE (k * limbs[i] + c[i + 1]) \div Base
    IN  [carry |-> c[1],
         limbs |-> [i \in 1..n |-> (k * limbs[i] + c[i + 1]) % Base]]

\* int(x) of the float x nearest (ties to even) to the exact product p: the
\* whole part of p, or one more when rounding p to Precision significant
\* bits carries into the whole part
float_int(p) ==
    LET m    == Precision - BitLen(p.carry)
        bits == Len(p.limbs) * LimbBits
    IN  IF bits <= m THEN p.carry
        ELSE LET up == /\ Bit(p.limbs, m + 1) = 1
                       /\ \/ Bit(p.limbs, m) = 1
                          \/ \E j \in (m + 2)..bits : Bit(p.limbs, j) = 1
             IN  IF up /\ \A j \in 1..m : Bit(p.limbs, j) = 1
                 THEN p.carry + 1
                 ELSE p.carry

\* line 382: int((seconds % 1) * 1000); seconds % 1 is exact, the product is
\* rounded to a float
millisecs(seconds) == float_int(Product(1000, Double(seconds).limbs))

\* format_timestamp_srt(seconds), seconds given in ticks; the floor
\* divisions and remainders of lines 379-381 are exact
format_timestamp_srt(seconds) ==
    LET whole     == Double(seconds).whole
        hours     == whole \div 3600
        minutes   == (whole % 3600) \div 60
        secs      == whole % 60
    IN  Pad(hours, 2) \o << ":" >> \o Pad(minutes, 2) \o << ":" >>
        \o Pad(secs, 2) \o << "," >> \o Pad(millisecs(seconds), 3)

\* the keys of a transcription dict and of a segment, in insertion order
ResultKeys == << "text", "segments", "language" >>

SegmentKeys == << "start", "end", "text", "speaker" >>

RECURSIVE FracDigits(_, _)
\* the digits after the point of a float, shortest form: f ticks of 1/unit
FracDigits(f, unit) ==
    LET u == unit \div 10
    IN  << Digit[(f \div u) + 1] >> \o
        (IF f % u = 0 THEN <<>> ELSE FracDigits(f % u, u))

\* a variant of FloatRepr that writes two decimals, as "%.2f" does
FloatRepr_TwoDecimals(t) ==
    Decimal(t \div Scale) \o << "." >> \o Pad((t % Scale) \div (Scale \div 100), 2)

\* repr of a float: 2.0, 0.5, 125.4567
FloatRepr(t) == Decimal(t \div Scale) \o << "." >> \o FracDigits(t % Scale, Scale)

\* the keys of dict d, in the order of keys
PresentKeys(d, keys) == SelectSeq(keys, LAMBDA k : k \in DOMAIN d)

\* what json.dumps(ensure_ascii=False) writes for the characters of a str:
\* a backslash before the quote and the backslash, \n for the newline. A str
\* of the model is one such character, or a run of others
json_escape(s) ==
    CASE s = "\"" -> "\\\""
      [] s = "\\" -> "\\\\"
      [] s = "\n" -> "\\n"
      [] OTHER -> s

\* json.dumps of a str
json_string(s) == << "\"", json_escape(s), "\"" >>

\* repr of a str: single quotes, double quotes around a lone single quote
repr_string(s) ==
    CASE s = "'" -> << "\"", s, "\"" >>
      [] s = "\\" -> << "'", "\\\\", "'" >>
      [] s = "\n" -> << "'", "\\n", "'" >>
      [] OTHER -> << "'", s, "'" >>

\* a str as json.dumps (style "json") or repr (style "repr") writes it
string_text(style, s) ==
    IF style = "json" THEN json_string(s) ELSE repr_string(s)

\* a segment dict written with strings in the given style and separators
\* kv, sep
SegmentText(seg, style, kv, sep) ==
    LET ks == PresentKeys(seg, SegmentKeys)
        Item(k) ==
            string_text(style, k) \o kv \o
            (IF k \in {"start", "end"} THEN FloatRepr(seg[k])
             ELSE string_text(style, seg[k]))
    IN  << "{" >> \o Join(sep, [i \in DOMAIN ks |-> Item(ks[i])]) \o << "}" >>

\* a transcription dict written with strings in the given style and
\* separators kv, sep
DictText(d, style, kv, sep) ==
    LET ks == PresentKeys(d, ResultKeys)
        Item(k) ==
            string_text(style, k) \o kv \o
            (IF k = "segments"
             THEN << "[" >> \o
                  Join(sep, [i \in DOMAIN d.segments |->
                                 SegmentText(d.segments[i], style, kv, sep)])
                  \o << "]" >>
             ELSE string_text(style, d[k]))
    IN  << "{" >> \o Join(sep, [i \in DOMAIN ks |-> Item(ks[i])]) \o << "}" >>

\* json.dumps(result, indent=2, ensure_ascii=False)
json_dumps(d) == DictText(d, "json", << ": " >>, << ",", "\n" >>)

\* str(result)
str_of(d) == DictText(d, "repr", << ": " >>, << ", " >>)

\* result.get('segments', [])
get_segments(d) == IF "segments" \in DOMAIN d THEN d.segments ELSE <<>>

\* one line of text for a segment, with the optional speaker prefix
SegmentLine(segment, speakers) ==
    IF speakers /\ "speaker" \in DOMAIN segment
    THEN << "[", segment.speaker, "] ", Strip(segment.text) >>
    ELSE << Strip(segment.text) >>

\* format_output raises (KeyError) instead of returning
format_raises(d, format_type) ==
    \/ /\ format_type = "srt"
       /\ \E i \in DOMAIN get_segments(d) :
              ~ ({"start", "end", "text"} \subseteq DOMAIN get_segments(d)[i])
    \/ /\ format_type = "txt"
       /\ "text" \notin DOMAIN d
       /\ \E i \in DOMAIN get_segments(d) :
              "text" \notin DOMAIN get_segments(d)[i]

\* a variant of format_output that writes the segments, not the full text,
\* when speaker labels are asked for
format_output_speakers_first(d, format_type, speakers) ==
    LET segments == get_segments(d)
    IN  CASE format_type = "json" -> json_dumps(d)
          [] format_type = "srt" ->
                Join(<< "\n" >>,
                     Flatten([i \in DOMAIN segments |->
                        << Decimal(i),
                           format_timestamp_srt(segments[i].start)
                             \o << " --> " >>
                             \o format_timestamp_srt(segments[i].end),
                           SegmentLine(segments[i], speakers),
                           <<>> >>]))
          [] format_type = "txt" ->
                IF "text" \in DOMAIN d /\ ~ speakers THEN << d.text >>
                ELSE Join(<< "\n" >>,
                          [i \in DOMAIN segments |->
                              SegmentLine(segments[i], speakers)])
          [] OTHER -> str_of(d)

\* format_output(result, format_type, include_speakers), when it returns
format_output(d, format_type, speakers) ==
    LET segments == get_segments(d)
    IN  CASE format_type = "json" -> json_dumps(d)
          [] format_type = "srt" ->
                Join(<< "\n" >>,
                     Flatten([i \in DOMAIN segments |->
                        << Decimal(i),
                           format_timestamp_srt(segments[i].start)
                             \o << " --> " >>
                             \o format_timestamp_srt(segments[i].end),
                           SegmentLine(segments[i], speakers),
                           <<>> >>]))
          [] format_type = "txt" ->
                IF "text" \in DOMAIN d THEN << d.text >>
                ELSE Join(<< "\n" >>,
                          [i \in DOMAIN segments |->
                              SegmentLine(segments[i], speakers)])
          [] OTHER -> str_of(d)

-----------------------------------------------------------------------------
(* Diarization merge: the loop of add_speaker_diarization *)

Labels == { "SPEAKER_00", "SPEAKER_01" }

\* the iteration orders a set of labels can have (hash order)
SetOrders ==
    { o \in [1..Cardinality(Labels) -> Labels] :
        \A i, j \in DOMAIN o : i # j => o[i] # o[j] }

\* a variant of turn_matches that compares strictly: a segment boundary that
\* coincides with a turn boundary does not match
turn_matches_strict(turn, segment) ==
    \/ turn.start < segment.start /\ segment.start < turn.end
    \/ turn.start < segment.end /\ segment.end < turn.end

\* a variant of turn_matches that tests whether the two intervals intersect
turn_matches_intersection(turn, segment) ==
    turn.start <= segment.end /\ segment.start <= turn.end

\* turn.start <= start_time <= turn.end or turn.start <= end_time <= turn.end
turn_matches(turn, segment) ==
    \/ turn.start <= segment.start /\ segment.start <= turn.end
    \/ turn.start <= segment.end /\ segment.end <= turn.end

\* the list `speakers` built for one segment, in itertracks order
matching_speakers(segment, turns) ==
    LET idx == SelectSeq([i \in DOMAIN turns |-> i],
                         LAMBDA i : turn_matches(turns[i], segment))
    IN  [j \in DOMAIN idx |-> turns[idx[j]].label]

\* speakers.count(label)
count(speakers, label) ==
    Cardinality({ i \in DOMAIN speakers : speakers[i] = label })

\* max(set(speakers), key=speakers.count): the first label of the set's
\* iteration order whose count no other label exceeds
most_frequent(speakers, order) ==
    LET best == { i \in DOMAIN order :
                    /\ order[i] \in Range(speakers)
                    /\ \A l \in Range(speakers) :
                          count(speakers, l) <= count(speakers, order[i]) }
    IN  order[CHOOSE i \in best : \A j \in best : i <= j]

\* a variant of assign_speaker that also strips the segment's text
assign_speaker_stripping(segment, turns, order) ==
    LET speakers == matching_speakers(segment, turns)
    IN  DictSet(DictSet(segment, "text", Strip(segment.text)), "speaker",
                IF speakers # <<>> THEN most_frequent(speakers, order)
                ELSE "UNKNOWN")

\* the body of the loop for one segment
assign_speaker(segment, turns, order) ==
    LET speakers == matching_speakers(segment, turns)
    IN  DictSet(segment, "speaker",
                IF speakers # <<>> THEN most_frequent(speakers, order)
                ELSE "UNKNOWN")

\* the first segment whose start or end lookup raises KeyError
\* (Len + 1 when there is none)
first_malformed(segments) ==
    LET bad == { i \in DOMAIN segments :
                   ~ ({"start", "end"} \subseteq DOMAIN segments[i]) }
    IN  IF bad = {} THEN Len(segments) + 1
        ELSE CHOOSE i \in bad : \A j \in bad : i <= j

\* the segments after the loop ran up to, not including, segment `stop`
merge_segments(segments, turns, order, stop) ==
    [i \in DOMAIN segments |->
        IF i < stop THEN assign_speaker(segments[i], turns, order)
        ELSE segments[i]]

\* transcription_result after the merge loop: the segments are changed in
\* place, so the dict holds them whether the loop finished or raised
merge_result(d, turns, order, stop) ==
    IF "segments" \in DOMAIN d
    THEN DictSet(d, "segments", merge_segments(d.segments, turns, order, stop))
    ELSE d

-----------------------------------------------------------------------------
(* The environment of one transcribe_file call *)

\* an unset str-valued attribute or local (None)
NoneStr == "None"

\* the name tempfile.NamedTemporaryFile(suffix='.wav', delete=False) returns
TempPath == "/tmp/tmpaudio.wav"

\* the input files of the model: what is at the path given to transcribe_file.
\* given is the argument as the caller wrote it, path is str(Path(given))
\* (lines 191 and 387), which drops a doubled separator
AudioInputs ==
    { [given |-> "/in/missing.wav",
       path |-> "/in/missing.wav", parent |-> "/in/", stem |-> "missing",
       exists |-> FALSE, suffix |-> ".wav", rate |-> 16000, channels |-> 1],
      [given |-> "/in//mono16k.wav",
       path |-> "/in/mono16k.wav", parent |-> "/in/", stem |-> "mono16k",
       exists |-> TRUE, suffix |-> ".wav", rate |-> 16000, channels |-> 1],
      [given |-> "/in/stereo16k.wav",
       path |-> "/in/stereo16k.wav", parent |-> "/in/", stem |-> "stereo16k",
       exists |-> TRUE, suffix |-> ".wav", rate |-> 16000, channels |-> 2],
      [given |-> "/in/mono44k.wav",
       path |-> "/in/mono44k.wav", parent |-> "/in/", stem |-> "mono44k",
       exists |-> TRUE, suffix |-> ".wav", rate |-> 44100, channels |-> 1],
      [given |-> "/in/talk.mp3",
       path |-> "/in/talk.mp3", parent |-> "/in/", stem |-> "talk",
       exists |-> TRUE, suffix |-> ".mp3", rate |-> 44100, channels |-> 2] }

\* the three formats of format_output, and two it does not know, one of them
\* with a path separator in it
OutputFormats == { "txt", "json", "srt", "vtt", "x/y" }

Seg1 == [start |-> Sec(0), end |-> Sec(2), text |-> " hello"]

Seg2 == [start |-> Sec(2), end |-> Sec(4), text |-> " world "]

\* the one segment of a three-second recording
SegTest == [start |-> Sec(0), end |-> Sec(3), text |-> "test"]

\* a segment without timing: segment['start'] raises KeyError
SegNoTimes == [text |-> "..."]

\* what an engine can return when it does not raise
EngineResults ==
    { EmptyDict,
      [text |-> " hello world ", segments |-> << Seg1, Seg2 >>,
       language |-> "en"],
      [segments |-> << Seg1, Seg2 >>],
      [segments |-> << Seg2, Seg1 >>],
      [segments |-> << SegTest >>],
      [segments |-> << Seg1, SegNoTimes >>] }

\* an engine call: it raises with a message, or returns a value
EngineOutcomes(engine) ==
    { [raised |-> TRUE, msg |-> << engine, " error" >>] }
    \cup { [raised |-> FALSE, value |-> r] : r \in EngineResults }

TurnOf(s, e, l) == [start |-> s, end |-> e, label |-> l]

\* what the diarization pipeline can return when it does not raise
DiarizationResults ==
    { << >>,
      << TurnOf(Sec(0), Sec(1), "SPEAKER_00"),
         TurnOf(Sec(3), Sec(5), "SPEAKER_01") >>,
      << TurnOf(Sec(2), Sec(4), "SPEAKER_01"),
         TurnOf(Sec(0), Sec(2), "SPEAKER_00") >> }

\* the content of an output file left by an earlier run
OldContent == << "old transcript" >>

NoFile == [exists |-> FALSE, content |-> << >>]

FileWith(text) == [exists |-> TRUE, content |-> text]

\* an exception object; str(e) is msg
Exception(type, msg) == [type |-> type, msg |-> msg]

\* one entry of the history
Event(op, status) == [op |-> op, status |-> status]

-----------------------------------------------------------------------------
(* preprocess_audio *)

\* preprocess_audio(audio_path), given how its external calls end:
\*   sf_read_ok  sf.read of the input succeeds (line 201)
\*   decode_ok   librosa.load succeeds (line 214), or ffmpeg exits 0 (line 237)
\*   store_ok    sf.write of the temporary file succeeds (line 218), or
\*               sf.read of the ffmpeg output succeeds (line 241)
\* The value tells whether it raised, what it returned, which external calls
\* it made (steps, in order, a failed one with its diagnostic), and which
\* temporary files it created and left on disk: lines 246-247 unlink the
\* temporary file before the RuntimeError is raised, so a raise leaves none.
preprocess_audio(ap, librosa, sf_read_ok, decode_ok, store_ok) ==
    LET Step(call, ok, diag) ==
            [call |-> call, ok |-> ok, diag |-> IF ok THEN << >> ELSE diag]
        Raise(e, made, steps) ==
            [raised |-> TRUE, exc |-> e, path |-> NoneStr, audio |-> None,
             created |-> made, left |-> {}, steps |-> steps]
        Failed(made, steps) ==
            Raise(Exception("RuntimeError",
                            << "Audio preprocessing failed: " >>
                                \o steps[Len(steps)].diag), made, steps)
        Return(path, rate, channels, made, steps) ==
            [raised |-> FALSE, exc |-> None, path |-> path,
             audio |-> [rate |-> rate, channels |-> channels],
             created |-> made, left |-> made, steps |-> steps]
        \* lines 198-206: the input is read when it is a waveform file and
        \* librosa is installed; a failure of the read is passed over
        probe == IF ap.suffix \in {".wav", ".flac"} /\ librosa
                 THEN << Step("sf.read(audio_path)", sf_read_ok,
                              << "sf.read failed" >>) >>
                 ELSE << >>
        load == Step("librosa.load", decode_ok, << "librosa.load failed" >>)
        write == Step("sf.write", store_ok, << "sf.write failed" >>)
        ffmpeg == Step("ffmpeg", decode_ok,
                       << "FFmpeg conversion failed: ", "stderr" >>)
        read == Step("sf.read(temp_path)", store_ok, << "sf.read failed" >>)
    IN  IF ~ ap.exists
        THEN Raise(Exception("FileNotFoundError",
                             << "Audio file not found: ", ap.path >>),
                   {}, << >>)
        ELSE IF /\ ap.suffix \in {".wav", ".flac"}
                /\ librosa
                /\ sf_read_ok
                /\ ap.rate = 16000
        THEN Return(ap.path, ap.rate, ap.channels, {}, probe)
        ELSE IF librosa
        THEN IF ~ decode_ok THEN Failed({}, probe \o << load >>)
             ELSE IF ~ store_ok
             THEN Failed({TempPath}, probe \o << load, write >>)
             ELSE Return(TempPath, 16000, 1, {TempPath},
                         probe \o << load, write >>)
        ELSE IF ~ decode_ok THEN Failed({TempPath}, << ffmpeg >>)
             ELSE IF ~ store_ok THEN Failed({TempPath}, << ffmpeg, read >>)
             ELSE Return(TempPath, 16000, 1, {TempPath}, << ffmpeg, read >>)

-----------------------------------------------------------------------------
(* transcribe_file, one action per step of its body *)

Init ==
    /\ MLX_AVAILABLE \in BOOLEAN
    /\ WHISPERX_AVAILABLE \in BOOLEAN
    /\ LIBROSA_AVAILABLE \in BOOLEAN
    /\ DIARIZATION_AVAILABLE \in BOOLEAN
    /\ language \in { NoneStr, "de" }
    /\ whisperx_model = NoneStr
    /\ diarization_pipeline = NoneStr
    /\ audio_path \in AudioInputs
    /\ files = IF audio_path.exists THEN { audio_path.path } ELSE {}
    /\ outputFile \in { NoFile, FileWith(OldContent) }
    /\ output_format \in OutputFormats
    /\ include_speakers \in BOOLEAN
    /\ pc = "preprocess"
    /\ processed_audio_path = NoneStr
    /\ audio_data = None
    /\ result = None
    /\ engine_used = NoneStr
    /\ diarization = << >>
    /\ formatted_result = << >>
    /\ exc = None
    /\ outcome = None
    /\ trace = << [op |-> "call", status |-> "start",
                   output |-> outputFile] >>

\* an exception leaves the try block of transcribe_file
Raise(e) ==
    /\ exc' = e
    /\ pc' = "except"

\* line 393: processed_audio_path, audio_data, sample_rate = preprocess_audio()
Preprocess ==
    /\ pc = "preprocess"
    /\ \E sf_read_ok, decode_ok, store_ok \in BOOLEAN :
          LET r == preprocess_audio(audio_path, LIBROSA_AVAILABLE,
                                    sf_read_ok, decode_ok, store_ok)
          IN  /\ files' = files \cup r.left
              /\ trace' = Append(trace,
                    [op |-> "preprocess",
                     status |-> IF r.raised THEN "raised" ELSE "ok",
                     created |-> r.created, steps |-> r.steps])
              /\ IF r.raised
                 THEN /\ Raise(r.exc)
                      /\ UNCHANGED << processed_audio_path, audio_data >>
                 ELSE /\ processed_audio_path' = r.path
                      /\ audio_data' = r.audio
                      /\ pc' = "mlx"
                      /\ exc' = exc
    /\ UNCHANGED << envVars, argVars, whisperx_model, diarization_pipeline,
                    outputFile, result, engine_used, diarization,
                    formatted_result, outcome >>

\* lines 269-271 of transcribe_with_mlx: the language hint is written onto
\* what mlx_whisper.transcribe returned
mlx_result(value, lang) ==
    IF lang # NoneStr THEN DictSet(value, "language", lang) ELSE value

\* the keyword arguments of the call of mlx_whisper.transcribe, lines 263-267
mlx_transcribe_kwargs == { "path_or_hf_repo", "verbose" }

\* the keyword arguments of the call of whisperx_model.transcribe, line 289
whisperx_transcribe_kwargs == { }

\* a variant of TryMLX that tries the engine a second time when the first
\* attempt raised
TryMLX_Retrying ==
    /\ pc = "mlx"
    /\ IF ~ MLX_AVAILABLE
       THEN pc' = "whisperx" /\ UNCHANGED << result, engine_used, trace >>
       ELSE \E o \in EngineOutcomes("MLX Whisper") :
               IF o.raised
               THEN /\ trace' = Append(trace,
                         [op |-> "mlx", status |-> "raised", msg |-> o.msg,
                          kwargs |-> mlx_transcribe_kwargs])
                    /\ pc' = IF \E i \in DOMAIN trace : trace[i].op = "mlx"
                             THEN "whisperx" ELSE "mlx"
                    /\ UNCHANGED << result, engine_used >>
               ELSE /\ result' = mlx_result(o.value, language)
                    /\ engine_used' = "MLX Whisper"
                    /\ trace' = Append(trace,
                         [op |-> "mlx", status |-> "ok",
                          value |-> mlx_result(o.value, language),
                          kwargs |-> mlx_transcribe_kwargs,
                          returned |-> o.value])
                    /\ pc' = "whisperx"
    /\ UNCHANGED << envVars, argVars, whisperx_model, diarization_pipeline,
                    files, outputFile, processed_audio_path, audio_data,
                    diarization, formatted_result, exc, outcome >>

\* lines 398-404: the primary engine
TryMLX ==
    /\ pc = "mlx"
    /\ IF ~ MLX_AVAILABLE
       THEN UNCHANGED << result, engine_used, trace >>
       ELSE \E o \in EngineOutcomes("MLX Whisper") :
               IF o.raised
               THEN /\ trace' = Append(trace,
                         [op |-> "mlx", status |-> "raised", msg |-> o.msg,
                          kwargs |-> mlx_transcribe_kwargs])
                    /\ UNCHANGED << result, engine_used >>
               ELSE /\ result' = mlx_result(o.value, language)
                    /\ engine_used' = "MLX Whisper"
                    /\ trace' = Append(trace,
                         [op |-> "mlx", status |-> "ok",
                          value |-> mlx_result(o.value, language),
                          kwargs |-> mlx_transcribe_kwargs,
                          returned |-> o.value])
    /\ pc' = "whisperx"
    /\ UNCHANGED << envVars, argVars, whisperx_model, diarization_pipeline,
                    files, outputFile, processed_audio_path, audio_data,
                    diarization, formatted_result, exc, outcome >>

\* a variant of model_missing that never finds the model
model_missing_always(model) == TRUE

\* lines 282 and 300: `if not self.whisperx_model`,
\* `if not self.diarization_pipeline`
model_missing(model) == model = NoneStr

\* how the loader of a model ends when the attribute holds `model`:
\* not called, or called and `loaded` tells whether it set the attribute
load_outcome(model, loaded) ==
    IF ~ model_missing(model) THEN "none"
    ELSE IF loaded THEN "ok" ELSE "failed"

\* lines 406-412: the fallback engine, with transcribe_with_whisperx and
\* load_whisperx_model
TryWhisperX ==
    /\ pc = "whisperx"
    /\ IF Truthy(result) \/ ~ WHISPERX_AVAILABLE
       THEN UNCHANGED << result, engine_used, whisperx_model, trace >>
       ELSE \E loaded \in BOOLEAN, o \in EngineOutcomes("WhisperX") :
               LET load == load_outcome(whisperx_model, loaded)
               IN
               IF load = "failed"
               THEN \* load_whisperx_model returned False, line 284 raises
                    /\ trace' = Append(trace,
                         [op |-> "whisperx", status |-> "raised",
                          msg |-> << "Failed to load WhisperX model" >>,
                          load |-> load])
                    /\ UNCHANGED << result, engine_used, whisperx_model >>
               ELSE /\ whisperx_model' = IF load = "ok" THEN "whisperx model"
                                         ELSE whisperx_model
                    /\ IF o.raised
                       THEN /\ trace' = Append(trace,
                                 [op |-> "whisperx", status |-> "raised",
                                  msg |-> o.msg,
                                  kwargs |-> whisperx_transcribe_kwargs,
                                  load |-> load])
                            /\ UNCHANGED << result, engine_used >>
                       ELSE /\ result' = o.value
                            /\ engine_used' = "WhisperX"
                            /\ trace' = Append(trace,
                                 [op |-> "whisperx", status |-> "ok",
                                  value |-> o.value,
                                  kwargs |-> whisperx_transcribe_kwargs,
                                  returned |-> o.value,
                                  load |-> load])
    /\ pc' = "check"
    /\ UNCHANGED << envVars, argVars, diarization_pipeline, files,
                    outputFile, processed_audio_path, audio_data,
                    diarization, formatted_result, exc, outcome >>

\* a variant of CheckResult that goes on to the formatting at once
CheckResult_SkipDiarization ==
    /\ pc = "check"
    /\ IF ~ Truthy(result)
       THEN Raise(Exception("RuntimeError",
                            << "All transcription engines failed" >>))
       ELSE pc' = "format" /\ exc' = exc
    /\ UNCHANGED << envVars, argVars, whisperx_model, diarization_pipeline,
                    files, outputFile, processed_audio_path, audio_data,
                    result, engine_used, diarization, formatted_result,
                    outcome, trace >>

\* lines 414-415
CheckResult ==
    /\ pc = "check"
    /\ IF ~ Truthy(result)
       THEN Raise(Exception("RuntimeError",
                            << "All transcription engines failed" >>))
       ELSE pc' = "diarize" /\ exc' = exc
    /\ UNCHANGED << envVars, argVars, whisperx_model, diarization_pipeline,
                    files, outputFile, processed_audio_path, audio_data,
                    result, engine_used, diarization, formatted_result,
                    outcome, trace >>

\* a call of the diarization pipeline (line 309): it raises or returns turns
DiarizationOutcomes ==
    { [raised |-> TRUE, value |-> << >>] }
    \cup { [raised |-> FALSE, value |-> d] : d \in DiarizationResults }

Min(a, b) == IF a <= b THEN a ELSE b

\* lines 417-419, with add_speaker_diarization and load_diarization_model.
\*   loaded  Pipeline.from_pretrained succeeds
\*   d       what the pipeline call does
\*   order   the iteration order of set(speakers)
\*   failAt  the segment at which diarization.itertracks raises, if any
Diarize ==
    /\ pc = "diarize"
    /\ IF ~ include_speakers
       THEN UNCHANGED << result, diarization_pipeline, diarization, trace >>
       ELSE \E loaded \in BOOLEAN, d \in DiarizationOutcomes,
               order \in SetOrders,
               failAt \in 1..(Len(get_segments(result)) + 1) :
               LET load == load_outcome(diarization_pipeline,
                                        DIARIZATION_AVAILABLE /\ loaded)
               IN
               IF load = "failed"
               THEN \* load_diarization_model returned False, line 303
                    /\ trace' = Append(trace,
                         [op |-> "diarize", status |-> "unavailable",
                          labelled |-> 0, load |-> load])
                    /\ UNCHANGED << result, diarization_pipeline,
                                    diarization >>
               ELSE /\ diarization_pipeline' =
                          IF load = "ok" THEN "pipeline"
                          ELSE diarization_pipeline
                    /\ IF d.raised
                       THEN /\ trace' = Append(trace,
                                 [op |-> "diarize", status |-> "raised",
                                  labelled |-> 0, load |-> load])
                            /\ UNCHANGED << result, diarization >>
                       ELSE LET segments == get_segments(result)
                                stop == Min(first_malformed(segments), failAt)
                            IN  /\ diarization' = d.value
                                /\ result' = merge_result(result, d.value,
                                                          order, stop)
                                /\ trace' = Append(trace,
                                     [op |-> "diarize",
                                      status |-> IF stop <= Len(segments)
                                                 THEN "raised" ELSE "ok",
                                      labelled |-> stop - 1,
                                      load |-> load])
    /\ pc' = "format"
    /\ UNCHANGED << envVars, argVars, whisperx_model, files, outputFile,
                    processed_audio_path, audio_data, engine_used,
                    formatted_result, exc, outcome >>

\* line 422: formatted_result = self.format_output(...)
Format ==
    /\ pc = "format"
    /\ IF format_raises(result, output_format)
       THEN /\ Raise(Exception("KeyError", << "'start'" >>))
            /\ trace' = Append(trace, Event("format", "raised"))
            /\ UNCHANGED formatted_result
       ELSE /\ formatted_result' =
                   format_output(result, output_format, include_speakers)
            /\ trace' = Append(trace, Event("format", "ok"))
            /\ pc' = "persist"
            /\ exc' = exc
    /\ UNCHANGED << envVars, argVars, whisperx_model, diarization_pipeline,
                    files, outputFile, processed_audio_path, audio_data,
                    result, engine_used, diarization, outcome >>

\* lines 425-431: the path the transcript is written to (no output_dir)
output_path ==
    << audio_path.parent, audio_path.stem, "_transcript.", output_format >>

\* the format contains os.sep, so that output_path lies in a directory
\* <stem>_transcript.x, which nothing has created
in_missing_directory(format) == format = "x/y"

\* a variant of write_outcomes that opens the file for appending
write_outcomes_appending(before, text) ==
    { [raised |-> TRUE, msg |-> << "open failed" >>, file |-> before] }
    \cup { [raised |-> TRUE, msg |-> << "write failed" >>,
            file |-> FileWith(before.content \o SubSeq(text, 1, n))] :
              n \in { 0, Len(text) \div 2 } }
    \cup { [raised |-> FALSE, msg |-> << >>,
            file |-> FileWith(before.content \o text)] }

\* what `with open(output_path, 'w') as f: f.write(text)` can do to the file
\* that holds `before`: open raises and the file is untouched; open truncates
\* the file and write raises after nothing, or half of the text, reached it;
\* or all is written
write_outcomes(before, text) ==
    { [raised |-> TRUE, msg |-> << "open failed" >>, file |-> before] }
    \cup { [raised |-> TRUE, msg |-> << "write failed" >>,
            file |-> FileWith(SubSeq(text, 1, n))] :
              n \in { 0, Len(text) \div 2 } }
    \cup { [raised |-> FALSE, msg |-> << >>, file |-> FileWith(text)] }

\* lines 433-434: open(output_path, 'w') raises FileNotFoundError when the
\* directory of output_path does not exist
open_outcomes(format, before, text) ==
    IF in_missing_directory(format)
    THEN { [raised |-> TRUE, msg |-> << "No such file or directory" >>,
            file |-> before] }
    ELSE write_outcomes(before, text)

\* a variant of success_outcome that always names the primary engine
success_outcome_primary(path, engine, res) ==
    [success |-> TRUE, output_path |-> path, engine |-> "MLX Whisper",
     result |-> res]

\* lines 442-447: the outcome of a successful call
success_outcome(path, engine, res) ==
    [success |-> TRUE, output_path |-> path, engine |-> engine,
     result |-> res]

\* lines 452-455: the outcome of a failed call
failure_outcome(e) == [success |-> FALSE, error |-> e.msg]

\* lines 433-447: write the file, build the success outcome
Persist ==
    /\ pc = "persist"
    /\ \E w \in open_outcomes(output_format, outputFile, formatted_result) :
          /\ outputFile' = w.file
          /\ IF w.raised
             THEN /\ Raise(Exception("OSError", w.msg))
                  /\ trace' = Append(trace, Event("write", "raised"))
                  /\ UNCHANGED outcome
             ELSE /\ outcome' = success_outcome(output_path, engine_used,
                                                result)
                  /\ trace' = Append(trace, Event("write", "ok"))
                  /\ pc' = "finally"
                  /\ exc' = exc
    /\ UNCHANGED << envVars, argVars, whisperx_model, diarization_pipeline,
                    files, processed_audio_path, audio_data, result,
                    engine_used, diarization, formatted_result >>

\* a variant of HandleException that catches RuntimeError only: any other
\* exception stays in flight
HandleException_RuntimeErrorOnly ==
    /\ pc = "except"
    /\ IF exc.type = "RuntimeError"
       THEN outcome' = failure_outcome(exc) /\ exc' = None
       ELSE UNCHANGED << outcome, exc >>
    /\ pc' = "finally"
    /\ UNCHANGED << envVars, argVars, whisperx_model, diarization_pipeline,
                    files, outputFile, processed_audio_path, audio_data,
                    result, engine_used, diarization, formatted_result,
                    trace >>

\* lines 449-455: except Exception as e
HandleException ==
    /\ pc = "except"
    /\ outcome' = failure_outcome(exc)
    /\ exc' = None
    /\ pc' = "finally"
    /\ UNCHANGED << envVars, argVars, whisperx_model, diarization_pipeline,
                    files, outputFile, processed_audio_path, audio_data,
                    result, engine_used, diarization, formatted_result,
                    trace >>

\* a variant of Cleanup that removes the temporary file only after a
\* successful call
Cleanup_OnSuccessOnly ==
    /\ pc = "finally"
    /\ files' = IF /\ outcome # None
                   /\ outcome.success
                   /\ processed_audio_path # NoneStr
                   /\ processed_audio_path # audio_path.path
                THEN files \ { processed_audio_path }
                ELSE files
    /\ pc' = IF exc # None THEN "raised" ELSE "done"
    /\ UNCHANGED << envVars, argVars, whisperx_model, diarization_pipeline,
                    outputFile, processed_audio_path, audio_data, result,
                    engine_used, diarization, formatted_result, exc,
                    outcome, trace >>

\* a variant of Cleanup that compares the processed path with the path as the
\* caller wrote it
Cleanup_ComparingArgument ==
    /\ pc = "finally"
    /\ files' = IF /\ processed_audio_path # NoneStr
                   /\ processed_audio_path # audio_path.given
                THEN files \ { processed_audio_path }
                ELSE files
    /\ pc' = IF exc # None THEN "raised" ELSE "done"
    /\ UNCHANGED << envVars, argVars, whisperx_model, diarization_pipeline,
                    outputFile, processed_audio_path, audio_data, result,
                    engine_used, diarization, formatted_result, exc,
                    outcome, trace >>

\* lines 457-463: finally, then the call returns (or the exception leaves it)
Cleanup ==
    /\ pc = "finally"
    /\ files' = IF /\ processed_audio_path # NoneStr
                   /\ processed_audio_path # audio_path.path
                THEN files \ { processed_audio_path }
                ELSE files
    /\ pc' = IF exc # None THEN "raised" ELSE "done"
    /\ UNCHANGED << envVars, argVars, whisperx_model, diarization_pipeline,
                    outputFile, processed_audio_path, audio_data, result,
                    engine_used, diarization, formatted_result, exc,
                    outcome, trace >>

Next ==
    \/ Preprocess
    \/ TryMLX
    \/ TryWhisperX
    \/ CheckResult
    \/ Diarize
    \/ Format
    \/ Persist
    \/ HandleException
    \/ Cleanup

Spec == Init /\ [][Next]_vars

\* the calls for a text transcript of a conformant input, of one that
\* needs conversion and of one that does not exist, without a language hint
\* and without an earlier output file
FairInit ==
    /\ Init
    /\ language = NoneStr
    /\ outputFile = NoFile
    /\ audio_path.stem \in { "mono16k", "talk", "missing" }
    /\ output_format = "txt"

\* every step of a call returns or raises, so the call goes on while it has a
\* step to take
FairSpec == FairInit /\ [][Next]_vars /\ WF_vars(Next)

-----------------------------------------------------------------------------
(* The merge loop alone, on every small segment and diarization output *)

Times == 0..MaxTime

\* turns of positive duration
TurnSet ==
    { TurnOf(a, b, l) : a \in Times, b \in Times, l \in Labels } \cap
    { t \in [start : Times, end : Times, label : Labels] : t.start < t.end }

\* turns of one speaker do not overlap (spec.md, section 3, DiarizationTurn)
WellFormedTurns(turns) ==
    \A i, j \in DOMAIN turns :
        (i # j /\ turns[i].label = turns[j].label) =>
            (turns[i].end < turns[j].start \/ turns[j].end < turns[i].start)

TurnSeqs ==
    { turns \in UNION { [1..n -> TurnSet] : n \in 0..MaxTurns } :
        WellFormedTurns(turns) }

SegmentSet ==
    { [start |-> a, end |-> b, text |-> "x"] :
        a \in Times, b \in Times } \cap
    { g \in [start : Times, end : Times, text : {"x"}] : g.start <= g.end }

MergeInit ==
    /\ MLX_AVAILABLE = TRUE
    /\ WHISPERX_AVAILABLE = TRUE
    /\ LIBROSA_AVAILABLE = TRUE
    /\ DIARIZATION_AVAILABLE = TRUE
    /\ language = NoneStr
    /\ whisperx_model = NoneStr
    /\ diarization_pipeline = "pipeline"
    /\ audio_path \in { a \in AudioInputs : a.path = "/in/mono16k.wav" }
    /\ files = { audio_path.path }
    /\ outputFile = NoFile
    /\ output_format = "txt"
    /\ include_speakers = TRUE
    /\ pc = "merge"
    /\ processed_audio_path = audio_path.path
    /\ audio_data = [rate |-> audio_path.rate, channels |-> audio_path.channels]
    /\ result \in { [segments |-> << g >>] : g \in SegmentSet }
    /\ engine_used = "MLX Whisper"
    /\ diarization \in TurnSeqs
    /\ formatted_result = << >>
    /\ exc = None
    /\ outcome = None
    /\ trace = << [op |-> "call", status |-> "start", value |-> result] >>

\* lines 311-329: the loop runs to its end over what the pipeline returned
Merge ==
    /\ pc = "merge"
    /\ \E order \in SetOrders :
          result' = merge_result(result, diarization, order,
                                 Len(get_segments(result)) + 1)
    /\ pc' = "merged"
    /\ UNCHANGED << envVars, argVars, whisperx_model, diarization_pipeline,
                    files, outputFile, processed_audio_path, audio_data,
                    engine_used, diarization, formatted_result, exc,
                    outcome, trace >>

MergeSpec == MergeInit /\ [][Merge]_vars

-----------------------------------------------------------------------------
(* Several transcribe_file calls, one after the other, on one transcriber *)

\* the inputs of the calls of a session
SessionInputs == { a \in AudioInputs : a.path = "/in/mono16k.wav" }

\* __init__ (lines 88-89) leaves both models unset; the first call begins
SessionInit ==
    /\ MLX_AVAILABLE \in BOOLEAN
    /\ WHISPERX_AVAILABLE \in BOOLEAN
    /\ LIBROSA_AVAILABLE = TRUE
    /\ DIARIZATION_AVAILABLE \in BOOLEAN
    /\ language = NoneStr
    /\ whisperx_model = NoneStr
    /\ diarization_pipeline = NoneStr
    /\ audio_path \in SessionInputs
    /\ files = { audio_path.path }
    /\ outputFile = NoFile
    /\ output_format = "txt"
    /\ include_speakers \in BOOLEAN
    /\ pc = "preprocess"
    /\ processed_audio_path = NoneStr
    /\ audio_data = None
    /\ result = None
    /\ engine_used = NoneStr
    /\ diarization = << >>
    /\ formatted_result = << >>
    /\ exc = None
    /\ outcome = None
    /\ trace = << [op |-> "call", status |-> "start",
                   output |-> outputFile, number |-> 1] >>

\* the call has returned and transcribe_file is called again on the same
\* object: the locals start afresh, the attributes of self and the disk stay
NextCall ==
    /\ pc = "done"
    /\ trace[1].number < MaxCalls
    /\ audio_path' \in SessionInputs
    /\ include_speakers' \in BOOLEAN
    /\ files' = files \cup { audio_path'.path }
    /\ pc' = "preprocess"
    /\ processed_audio_path' = NoneStr
    /\ audio_data' = None
    /\ result' = None
    /\ engine_used' = NoneStr
    /\ diarization' = << >>
    /\ formatted_result' = << >>
    /\ exc' = None
    /\ outcome' = None
    /\ trace' = << [op |-> "call", status |-> "start",
                    output |-> outputFile,
                    number |-> trace[1].number + 1] >>
    /\ UNCHANGED << envVars, output_format, whisperx_model,
                    diarization_pipeline, outputFile >>

SessionNext ==
    \/ Next
    \/ NextCall

SessionSpec == SessionInit /\ [][SessionNext]_vars

-----------------------------------------------------------------------------
(* Concurrent transcribe_file calls on one transcriber: the steps of each
   thread that read or write self.whisperx_model and
   self.diarization_pipeline.  Here pc gives each thread's position and
   trace lists the calls of the loaders. *)

Threads == 1..MaxThreads

\* every thread is about to enter transcribe_with_whisperx: the primary
\* engine is not installed, speakers are requested
ConcInit ==
    /\ MLX_AVAILABLE = FALSE
    /\ WHISPERX_AVAILABLE = TRUE
    /\ LIBROSA_AVAILABLE = TRUE
    /\ DIARIZATION_AVAILABLE = TRUE
    /\ language = NoneStr
    /\ whisperx_model = NoneStr
    /\ diarization_pipeline = NoneStr
    /\ audio_path \in SessionInputs
    /\ files = { audio_path.path }
    /\ outputFile = NoFile
    /\ output_format = "txt"
    /\ include_speakers = TRUE
    /\ pc = [t \in Threads |-> "check_whisperx"]
    /\ processed_audio_path = audio_path.path
    /\ audio_data = [rate |-> audio_path.rate, channels |-> audio_path.channels]
    /\ result = None
    /\ engine_used = NoneStr
    /\ diarization = << >>
    /\ formatted_result = << >>
    /\ exc = None
    /\ outcome = None
    /\ trace = << >>

\* what no step of the loading touches
ConcFrame ==
    UNCHANGED << envVars, argVars, files, outputFile, processed_audio_path,
                 audio_data, result, engine_used, diarization,
                 formatted_result, exc, outcome >>

\* line 282: if not self.whisperx_model
CheckWhisperX ==
    \E t \in Threads :
        /\ pc[t] = "check_whisperx"
        /\ pc' = [pc EXCEPT ![t] = IF model_missing(whisperx_model)
                                   THEN "load_whisperx" ELSE "transcribe"]
        /\ UNCHANGED << whisperx_model, diarization_pipeline, trace >>
        /\ ConcFrame

\* lines 283-284 with load_whisperx_model, lines 176-186: the model is
\* loaded and assigned, or the load fails and line 284 raises
LoadWhisperX ==
    \E t \in Threads, loaded \in BOOLEAN :
        /\ pc[t] = "load_whisperx"
        /\ trace' = Append(trace,
              [op |-> "whisperx", status |-> "load", thread |-> t,
               load |-> IF loaded THEN "ok" ELSE "failed"])
        /\ whisperx_model' = IF loaded THEN "whisperx model"
                             ELSE whisperx_model
        /\ pc' = [pc EXCEPT ![t] = IF loaded THEN "transcribe" ELSE "done"]
        /\ UNCHANGED diarization_pipeline
        /\ ConcFrame

\* line 289: the engine returns a result, or raises and the call ends
Transcribe ==
    \E t \in Threads, ok \in BOOLEAN :
        /\ pc[t] = "transcribe"
        /\ pc' = [pc EXCEPT ![t] = IF ok THEN "check_diarization"
                                   ELSE "done"]
        /\ UNCHANGED << whisperx_model, diarization_pipeline, trace >>
        /\ ConcFrame

\* line 300: if not self.diarization_pipeline
CheckDiarization ==
    \E t \in Threads :
        /\ pc[t] = "check_diarization"
        /\ pc' = [pc EXCEPT ![t] = IF model_missing(diarization_pipeline)
                                   THEN "load_diarization" ELSE "diarize"]
        /\ UNCHANGED << whisperx_model, diarization_pipeline, trace >>
        /\ ConcFrame

\* lines 301-303 with load_diarization_model, lines 142-169
LoadDiarization ==
    \E t \in Threads, loaded \in BOOLEAN :
        /\ pc[t] = "load_diarization"
        /\ trace' = Append(trace,
              [op |-> "diarize", status |-> "load", thread |-> t,
               load |-> IF loaded THEN "ok" ELSE "failed"])
        /\ diarization_pipeline' = IF loaded THEN "pipeline"
                                   ELSE diarization_pipeline
        /\ pc' = [pc EXCEPT ![t] = IF loaded THEN "diarize" ELSE "done"]
        /\ UNCHANGED whisperx_model
        /\ ConcFrame

\* lines 309-329: the pipeline runs and the labels are merged
RunDiarization ==
    \E t \in Threads :
        /\ pc[t] = "diarize"
        /\ pc' = [pc EXCEPT ![t] = "done"]
        /\ UNCHANGED << whisperx_model, diarization_pipeline, trace >>
        /\ ConcFrame

ConcNext ==
    \/ CheckWhisperX
    \/ LoadWhisperX
    \/ Transcribe
    \/ CheckDiarization
    \/ LoadDiarization
    \/ RunDiarization

ConcSpec == ConcInit /\ [][ConcNext]_vars

-----------------------------------------------------------------------------
(* format_timestamp_srt alone, on segment times up to a day *)

\* whole seconds and ten-thousandths of the times formatted
StampSeconds == { 0, 1, 59, 60, 125, 3599, 3600, 86399 }

StampTicks == { 0, 1, 10, 90, 4567, 5000, 9990, 9999 }

\* result holds the time to format
TimestampInit ==
    /\ MLX_AVAILABLE = TRUE
    /\ WHISPERX_AVAILABLE = TRUE
    /\ LIBROSA_AVAILABLE = TRUE
    /\ DIARIZATION_AVAILABLE = TRUE
    /\ language = NoneStr
    /\ whisperx_model = NoneStr
    /\ diarization_pipeline = NoneStr
    /\ audio_path \in SessionInputs
    /\ files = { audio_path.path }
    /\ outputFile = NoFile
    /\ output_format = "srt"
    /\ include_speakers = FALSE
    /\ pc = "timestamp"
    /\ processed_audio_path = audio_path.path
    /\ audio_data = [rate |-> audio_path.rate, channels |-> audio_path.channels]
    /\ result \in { Sec(w) + f : w \in StampSeconds, f \in StampTicks }
    /\ engine_used = "MLX Whisper"
    /\ diarization = << >>
    /\ formatted_result = << >>
    /\ exc = None
    /\ outcome = None
    /\ trace = << >>

\* lines 345-346: self.format_timestamp_srt(segment['start'])
FormatTimestamp ==
    /\ pc = "timestamp"
    /\ formatted_result' = format_timestamp_srt(result)
    /\ pc' = "stamped"
    /\ UNCHANGED << envVars, argVars, whisperx_model, diarization_pipeline,
                    files, outputFile, processed_audio_path, audio_data,
                    result, engine_used, diarization, exc, outcome, trace >>

TimestampSpec == TimestampInit /\ [][FormatTimestamp]_vars

-----------------------------------------------------------------------------
(* format_output(result, 'json') alone, on results of up to MaxSegments
   segments *)

\* texts: plain ones, and the characters json.dumps escapes
JsonTexts == { "test", "\"", "\\", "\n" }

JsonSegments ==
    [start : { Sec(0), 5000 }, end : { 1254567 }, text : JsonTexts]
    \cup [start : { Sec(0), 5000 }, end : { 1254567 }, text : JsonTexts,
          speaker : { "SPEAKER_00" }]

JsonSegmentSeqs == UNION { [1..n -> JsonSegments] : n \in 0..MaxSegments }

\* results as the engines return them, with or without the full text
JsonResults ==
    { [segments |-> segs] : segs \in JsonSegmentSeqs }
    \cup { [text |-> "test", segments |-> segs, language |-> "en"] :
             segs \in JsonSegmentSeqs }

JsonInit ==
    /\ MLX_AVAILABLE = TRUE
    /\ WHISPERX_AVAILABLE = TRUE
    /\ LIBROSA_AVAILABLE = TRUE
    /\ DIARIZATION_AVAILABLE = TRUE
    /\ language = NoneStr
    /\ whisperx_model = NoneStr
    /\ diarization_pipeline = NoneStr
    /\ audio_path \in SessionInputs
    /\ files = { audio_path.path }
    /\ outputFile = NoFile
    /\ output_format = "json"
    /\ include_speakers \in BOOLEAN
    /\ pc = "format"
    /\ processed_audio_path = audio_path.path
    /\ audio_data = [rate |-> audio_path.rate, channels |-> audio_path.channels]
    /\ result \in JsonResults
    /\ engine_used = "MLX Whisper"
    /\ diarization = << >>
    /\ formatted_result = << >>
    /\ exc = None
    /\ outcome = None
    /\ trace = << >>

\* line 338: return json.dumps(result, indent=2, ensure_ascii=False)
RenderJson ==
    /\ pc = "format"
    /\ formatted_result' = format_output(result, output_format, include_speakers)
    /\ pc' = "rendered"
    /\ UNCHANGED << envVars, argVars, whisperx_model, diarization_pipeline,
                    files, outputFile, processed_audio_path, audio_data,
                    result, engine_used, diarization, exc, outcome, trace >>

JsonSpec == JsonInit /\ [][RenderJson]_vars

-----------------------------------------------------------------------------
(* test_installation.py: run_comprehensive_test. result is the results dict,
   trace the log of how each test function ended *)

\* lines 280-289: the tests, in order
tests ==
    << "System Requirements", "Python Environment", "Core Dependencies",
       "Optional Dependencies", "Audio Processing", "Model Access",
       "CLI Access", "Directory Structure" >>

\* how a test function can end: the value it returns, or "raise" for an
\* exception that leaves it
test_outcomes(test_name) ==
    CASE test_name = "System Requirements" -> { "True", "False" }
      [] test_name = "Python Environment" -> { "True" }
      [] test_name = "Core Dependencies" -> { "True", "False" }
      \* lines 121-135: no return statement; only ImportError is caught
      [] test_name = "Optional Dependencies" -> { "None", "raise" }
      [] test_name = "Audio Processing" -> { "True", "False" }
      \* lines 193-199: the config file is read outside the try
      [] test_name = "Model Access" -> { "True", "False", "raise" }
      [] test_name = "CLI Access" -> { "True", "False" }
      [] test_name = "Directory Structure" -> { "True", "False" }

\* line 291: results = {}
RunnerInit ==
    /\ MLX_AVAILABLE = TRUE
    /\ WHISPERX_AVAILABLE = TRUE
    /\ LIBROSA_AVAILABLE = TRUE
    /\ DIARIZATION_AVAILABLE = TRUE
    /\ language = NoneStr
    /\ whisperx_model = NoneStr
    /\ diarization_pipeline = NoneStr
    /\ audio_path \in SessionInputs
    /\ files = { audio_path.path }
    /\ outputFile = NoFile
    /\ output_format = "txt"
    /\ include_speakers = FALSE
    /\ pc = "tests"
    /\ processed_audio_path = NoneStr
    /\ audio_data = None
    /\ result = EmptyDict
    /\ engine_used = NoneStr
    /\ diarization = << >>
    /\ formatted_result = << >>
    /\ exc = None
    /\ outcome = None
    /\ trace = << >>

\* lines 292-297: one turn of the loop over the tests
RunTest ==
    /\ pc = "tests"
    /\ LET test_name == tests[Len(trace) + 1]
       IN  \E o \in test_outcomes(test_name) :
              /\ result' = DictSet(result, test_name,
                                   IF o = "raise" THEN "False" ELSE o)
              /\ trace' = Append(trace, [op |-> test_name, status |-> o])
    /\ pc' = IF Len(trace) + 1 = Len(tests) THEN "summary" ELSE "tests"
    /\ UNCHANGED << envVars, argVars, whisperx_model, diarization_pipeline,
                    files, outputFile, processed_audio_path, audio_data,
                    engine_used, diarization, formatted_result, exc,
                    outcome >>

\* sum(results.values()): True counts 1 and False 0
passed_count(results) ==
    Cardinality({ k \in DOMAIN results : results[k] = "True" })

\* lines 299-326: the summary and the verdict; sum() raises TypeError on None
Summary ==
    /\ pc = "summary"
    /\ IF \E k \in DOMAIN result : result[k] = "None"
       THEN /\ exc' = Exception("TypeError",
                        << "unsupported operand type(s) for +: ",
                           "'int' and 'NoneType'" >>)
            /\ pc' = "raised"
            /\ UNCHANGED outcome
       ELSE /\ outcome' =
                  [value |-> passed_count(result) = Cardinality(DOMAIN result)]
            /\ pc' = "returned"
            /\ UNCHANGED exc
    /\ UNCHANGED << envVars, argVars, whisperx_model, diarization_pipeline,
                    files, outputFile, processed_audio_path, audio_data,
                    result, engine_used, diarization, formatted_result,
                    trace >>

RunnerNext ==
    \/ RunTest
    \/ Summary

RunnerSpec == RunnerInit /\ [][RunnerNext]_vars

-----------------------------------------------------------------------------
(* Properties *)

Happened(op, status) ==
    \E i \in DOMAIN trace : trace[i].op = op /\ trace[i].status = status

\* the engine calls of the call so far, in order
EngineEvents == SelectSeq(trace, LAMBDA e : e.op \in {"mlx", "whisperx"})

EngineName(op) == IF op = "mlx" THEN "MLX Whisper" ELSE "WhisperX"

\* the temporary files preprocess_audio created during the call
TempsCreated ==
    UNION { trace[i].created :
              i \in { j \in DOMAIN trace : trace[j].op = "preprocess" } }

\* the output file as it was when the call began
OutputBefore == trace[1].output

\* preprocessing failed, every engine failed, or formatting or writing failed
ExpectedFailure ==
    \/ Happened("preprocess", "raised")
    \/ Happened("format", "raised")
    \/ Happened("write", "raised")
    \/ /\ Happened("preprocess", "ok")
       /\ \A i \in DOMAIN EngineEvents : EngineEvents[i].status = "raised"

\* C1: transcribe_file never lets an exception escape; when preprocessing
\* fails, every engine fails, or formatting or writing fails, it returns an
\* outcome with success = false and a non-empty error; it returns
\* success = true only after the output file was written, as its last step.
C1_AlwaysOutcome ==
    /\ pc # "raised"
    /\ pc = "done" =>
          /\ outcome # None
          /\ ExpectedFailure =>
                /\ outcome.success = FALSE
                /\ "error" \in DOMAIN outcome
                /\ outcome.error # << >>
          /\ outcome.success =>
                /\ trace[Len(trace)] = Event("write", "ok")
                /\ outputFile = FileWith(formatted_result)

\* C1 witness: a call that failed while writing has returned
C1_WitnessWriteFailed ==
    /\ pc = "done"
    /\ Happened("write", "raised")
    /\ outcome.success = FALSE

\* C2: when the call has returned, no temporary file that preprocess_audio
\* created during it is still on disk, whatever the exit path.
C2_NoTempSurvives ==
    pc \in {"done", "raised"} => TempsCreated \cap files = {}

\* C2 witness: a temporary file was created and every engine then failed
C2_WitnessEnginesFailed ==
    /\ pc = "done"
    /\ TempsCreated # {}
    /\ Happened("preprocess", "ok")
    /\ EngineEvents # << >>
    /\ \A i \in DOMAIN EngineEvents : EngineEvents[i].status = "raised"

\* C3: the first engine that completes without raising wins: no engine is
\* invoked after it in the call, whatever it returned, and a successful
\* outcome names it.
C3_FirstCompletedEngineWins ==
    \A i \in DOMAIN EngineEvents :
        EngineEvents[i].status = "ok" =>
            /\ i = Len(EngineEvents)
            /\ (pc = "done" /\ outcome.success) =>
                  outcome.engine = EngineName(EngineEvents[i].op)

\* C4: if every attempted engine failed, the failure outcome's error lists
\* the failure reason of each of them.
C4_AggregatedEngineErrors ==
    ( /\ pc = "done"
      /\ Happened("preprocess", "ok")
      /\ EngineEvents # << >>
      /\ \A i \in DOMAIN EngineEvents : EngineEvents[i].status = "raised" )
    => /\ outcome.success = FALSE
       /\ \A i \in DOMAIN EngineEvents :
             Range(EngineEvents[i].msg) \subseteq Range(outcome.error)

\* C5: with no engine available the call invokes no engine, returns a
\* failure outcome of kind "all engines failed", and that outcome lists
\* every configured engine.
C5_NoEngineAvailable ==
    ( /\ pc = "done"
      /\ Happened("preprocess", "ok")
      /\ ~ MLX_AVAILABLE
      /\ ~ WHISPERX_AVAILABLE )
    => /\ EngineEvents = << >>
       /\ outcome.success = FALSE
       /\ "All transcription engines failed" \in Range(outcome.error)
       /\ {"MLX Whisper", "WhisperX"} \subseteq Range(outcome.error)

\* the primary engine was attempted and raised, the secondary then returned
\* a result the orchestrator accepts
PrimaryFailedSecondarySucceeded ==
    /\ Len(EngineEvents) = 2
    /\ EngineEvents[1].op = "mlx"
    /\ EngineEvents[1].status = "raised"
    /\ EngineEvents[2].op = "whisperx"
    /\ EngineEvents[2].status = "ok"
    /\ Truthy(EngineEvents[2].value)

C7_DiarizationFailureUnlabeled ==
    ( /\ pc = "done"
      /\ include_speakers
      /\ Happened("diarize", "unavailable") \/ Happened("diarize", "raised")
      /\ ~ Happened("format", "raised")
      /\ ~ Happened("write", "raised") )
    => /\ outcome.success
       /\ \A i \in DOMAIN get_segments(outcome.result) :
             "speaker" \notin DOMAIN get_segments(outcome.result)[i]

\* C8: the text is formatted before the file is opened, and a call that
\* returns a failure leaves the output file exactly as it was before.
C8_NoPartialOutput ==
    /\ \A i \in DOMAIN trace :
          trace[i].op = "write" =>
              \E j \in 1..(i - 1) : trace[j] = Event("format", "ok")
    /\ (pc = "done" /\ outcome.success = FALSE) => outputFile = OutputBefore

\* the segments as the engine returned them, before the merge
SegmentsBefore == get_segments(trace[1].value)

\* the segment lies within the turn
Contained(g, t) == t.start <= g.start /\ g.end <= t.end

\* the turn holds the segment's start or its end
EndpointInside(g, t) ==
    \/ t.start <= g.start /\ g.start <= t.end
    \/ t.start <= g.end /\ g.end <= t.end

\* C9 as stated: a segment fully contained within exactly one turn gets that
\* turn's label, whatever other turns are present.
C9_ContainedInOneTurn ==
    pc = "merged" =>
        \A i \in DOMAIN SegmentsBefore, j \in DOMAIN diarization :
            ( /\ Contained(SegmentsBefore[i], diarization[j])
              /\ \A k \in DOMAIN diarization \ {j} :
                    ~ Contained(SegmentsBefore[i], diarization[k]) )
            => result.segments[i].speaker = diarization[j].label

\* C9 amended: a segment fully contained within exactly one turn gets that
\* turn's label whenever no other turn holds the segment's start or end.
C9_ContainedOnlyMatch ==
    pc = "merged" =>
        \A i \in DOMAIN SegmentsBefore, j \in DOMAIN diarization :
            ( /\ Contained(SegmentsBefore[i], diarization[j])
              /\ \A k \in DOMAIN diarization \ {j} :
                    ~ EndpointInside(SegmentsBefore[i], diarization[k]) )
            => result.segments[i].speaker = diarization[j].label

\* C9 witness: a merged segment contained in one turn, other turns present,
\* none of them holding an endpoint of the segment
C9_WitnessContained ==
    /\ pc = "merged"
    /\ Len(diarization) >= 2
    /\ \E i \in DOMAIN SegmentsBefore, j \in DOMAIN diarization :
          /\ Contained(SegmentsBefore[i], diarization[j])
          /\ \A k \in DOMAIN diarization \ {j} :
                ~ EndpointInside(SegmentsBefore[i], diarization[k])
          /\ result.segments[i].speaker = diarization[j].label

\* the label of `speakers` with the highest count, the first encountered
\* among those that tie
FirstMostFrequent(speakers) ==
    LET best == { n \in DOMAIN speakers :
                    \A m \in DOMAIN speakers :
                        count(speakers, speakers[m])
                            <= count(speakers, speakers[n]) }
    IN  speakers[CHOOSE n \in best : \A m \in best : n <= m]

\* C10: when turns match a segment, its speaker is the label with the most
\* matching turns, and among labels that tie the one encountered first in
\* the diarization's iteration order.
C10_TieFirstEncountered ==
    pc = "merged" =>
        \A i \in DOMAIN SegmentsBefore :
            LET speakers == matching_speakers(SegmentsBefore[i], diarization)
            IN  speakers # << >> =>
                    result.segments[i].speaker = FirstMostFrequent(speakers)

\* C11: after the merge a segment's speaker is "UNKNOWN" exactly when no turn
\* holds the segment's start or its end (bounds inclusive); a segment that
\* spans a whole turn with neither endpoint inside any turn is "UNKNOWN".
C11_UnknownIffNoEndpointInside ==
    pc = "merged" =>
        \A i \in DOMAIN SegmentsBefore :
            (result.segments[i].speaker = "UNKNOWN")
                <=> (\A j \in DOMAIN diarization :
                        ~ EndpointInside(SegmentsBefore[i], diarization[j]))

\* C11 witness: a merged segment that spans a whole turn, with neither of its
\* endpoints inside any turn, is "UNKNOWN"
C11_WitnessSpansTurn ==
    /\ pc = "merged"
    /\ \E i \in DOMAIN SegmentsBefore, j \in DOMAIN diarization :
          /\ SegmentsBefore[i].start < diarization[j].start
          /\ diarization[j].end < SegmentsBefore[i].end
          /\ \A k \in DOMAIN diarization :
                ~ EndpointInside(SegmentsBefore[i], diarization[k])
          /\ result.segments[i].speaker = "UNKNOWN"

\* what the engine whose result the call uses returned
ChosenEngineValue ==
    LET ok == SelectSeq(EngineEvents, LAMBDA e : e.status = "ok")
    IN  ok[Len(ok)].value

\* a segment without its speaker entry
WithoutSpeaker(segment) ==
    [k \in DOMAIN segment \ {"speaker"} |-> segment[k]]

\* C12: once add_speaker_diarization was called, whether it succeeded or
\* failed, the result holds the segments the chosen engine returned, in the
\* same number and order, each with the same start, end and text, and with
\* start <= end; only speaker entries were added.
C12_MergeOnlySetsSpeaker ==
    (\E i \in DOMAIN trace : trace[i].op = "diarize") =>
        /\ DOMAIN result = DOMAIN ChosenEngineValue
        /\ \A k \in DOMAIN result \ {"segments"} :
              result[k] = ChosenEngineValue[k]
        /\ Len(get_segments(result)) = Len(get_segments(ChosenEngineValue))
        /\ \A i \in DOMAIN get_segments(result) :
              LET before == get_segments(ChosenEngineValue)[i]
                  after == get_segments(result)[i]
              IN  /\ WithoutSpeaker(after) = before
                  /\ {"start", "end"} \subseteq DOMAIN after =>
                        after.start <= after.end

\* C12 witness: a diarization that labelled the first segment and then
\* failed, leaving a result with a speaker on that segment only
C12_WitnessPartlyLabelled ==
    /\ \E i \in DOMAIN trace :
          /\ trace[i].op = "diarize"
          /\ trace[i].status = "raised"
          /\ trace[i].labelled = 1
    /\ "speaker" \in DOMAIN result.segments[1]
    /\ "speaker" \notin DOMAIN result.segments[2]

\* the input is a waveform file that is already mono at 16 kHz
Conformant(ap) ==
    ap.suffix \in {".wav", ".flac"} /\ ap.rate = 16000 /\ ap.channels = 1

Preprocessed == \E i \in DOMAIN trace : trace[i].op = "preprocess"

\* the entry of the history for the call of preprocess_audio
PreprocessEvent ==
    trace[CHOOSE i \in DOMAIN trace : trace[i].op = "preprocess"]

\* the external calls of preprocess_audio that failed, by kind
FailedSteps(calls) ==
    SelectSeq(PreprocessEvent.steps, LAMBDA st : st.call \in calls /\ ~ st.ok)

\* C13: the audio handed to the engines is mono at exactly 16000 Hz, and an
\* input that is not already mono at 16 kHz (a 16 kHz file with several
\* channels included) is converted: the path returned is not the input's.
C13_EnginesGetMono16k ==
    Happened("preprocess", "ok") =>
        /\ audio_data.rate = 16000
        /\ audio_data.channels = 1
        /\ ~ Conformant(audio_path) => processed_audio_path # audio_path.path

\* C14: for an input that is already a mono 16 kHz waveform file (and that
\* can be read), preprocessing returns the input path, creates no temporary
\* file and makes no conversion call, whichever libraries are installed.
C14_ConformantInputUntouched ==
    ( /\ Preprocessed
      /\ audio_path.exists
      /\ Conformant(audio_path)
      /\ FailedSteps({"sf.read(audio_path)"}) = << >> )
    => /\ PreprocessEvent.status = "ok"
       /\ processed_audio_path = audio_path.path
       /\ PreprocessEvent.created = {}
       /\ \A i \in DOMAIN PreprocessEvent.steps :
             PreprocessEvent.steps[i].call = "sf.read(audio_path)"

\* C15: when the conversion of a non-conformant input with the in-process
\* library fails, the external transcoder is tried; preprocessing fails only when
\* the transcoder failed, after the library (if installed) failed, and the
\* error then carries the diagnostics of every failed attempt.
C15_FallbackToTranscoder ==
    (Preprocessed /\ audio_path.exists /\ ~ Conformant(audio_path)) =>
        LET inprocess == FailedSteps({"librosa.load", "sf.write"})
            external == FailedSteps({"ffmpeg", "sf.read(temp_path)"})
        IN  /\ inprocess # << >> =>
                  \E i \in DOMAIN PreprocessEvent.steps :
                      PreprocessEvent.steps[i].call = "ffmpeg"
            /\ PreprocessEvent.status = "raised" =>
                  /\ external # << >>
                  /\ LIBROSA_AVAILABLE => inprocess # << >>
                  /\ pc = "except" =>
                        \A i \in DOMAIN (inprocess \o external) :
                            Range((inprocess \o external)[i].diag)
                                \subseteq Range(exc.msg)

\* the segments that carry a start are in ascending order of start
SortedByStart(segments) ==
    \A i, j \in DOMAIN segments :
        (i < j /\ "start" \in DOMAIN segments[i]
               /\ "start" \in DOMAIN segments[j])
            => segments[i].start <= segments[j].start

\* C16: the segments the diarization merge, the formatter and the successful
\* outcome work on are in ascending order of start, whatever order the
\* chosen engine returned them in.
C16_SegmentsSortedDownstream ==
    /\ pc \in {"diarize", "format", "persist"} =>
          SortedByStart(get_segments(result))
    /\ (pc = "done" /\ outcome.success) =>
          SortedByStart(get_segments(outcome.result))

\* C17: with a language hint configured, every engine call is given the
\* hint, and the result an engine adapter hands back carries the language the
\* engine reported, or the hint when the engine reported none; for the
\* primary and the fallback engine alike.
C17_LanguageHintForwarded ==
    language # NoneStr =>
        \A i \in DOMAIN EngineEvents :
            LET e == EngineEvents[i]
            IN  /\ "kwargs" \in DOMAIN e => "language" \in e.kwargs
                /\ e.status = "ok" =>
                      /\ "language" \in DOMAIN e.value
                      /\ e.value.language =
                            IF "language" \in DOMAIN e.returned
                            THEN e.returned.language
                            ELSE language

\* the step is a call of the engine or of the diarization (op) in which the
\* loader of its model was called
LoaderInvoked(op) ==
    /\ Len(trace') = Len(trace) + 1
    /\ trace'[Len(trace')].op = op
    /\ trace'[Len(trace')].load # "none"

\* C18: over the calls made one after the other on one transcriber, a model
\* attribute changes only when its loader is called, the loader of the
\* fallback model is called only when the fallback engine is about to run
\* and that of the diarization model only when speakers are requested for a
\* result, and no loader is called once its model is set.
C18_LazyMemoizedLoading ==
    [][ /\ whisperx_model' # whisperx_model => LoaderInvoked("whisperx")
        /\ diarization_pipeline' # diarization_pipeline
              => LoaderInvoked("diarize")
        /\ LoaderInvoked("whisperx") =>
              /\ whisperx_model = NoneStr
              /\ pc = "whisperx"
              /\ WHISPERX_AVAILABLE
              /\ ~ Truthy(result)
        /\ LoaderInvoked("diarize") =>
              /\ diarization_pipeline = NoneStr
              /\ pc = "diarize"
              /\ include_speakers
              /\ Truthy(result)
      ]_vars

\* C18 witness: in a later call the fallback engine and the diarization both
\* ran on models loaded by an earlier call, without a call of a loader
C18_WitnessModelsReused ==
    /\ trace[1].number > 1
    /\ whisperx_model # NoneStr
    /\ diarization_pipeline # NoneStr
    /\ \E i, j \in DOMAIN trace :
          /\ trace[i].op = "whisperx"
          /\ trace[i].load = "none"
          /\ trace[j].op = "diarize"
          /\ trace[j].load = "none"

\* the loads of the model of `op` that succeeded so far
SuccessfulLoads(op) ==
    { i \in DOMAIN trace : trace[i].op = op /\ trace[i].load = "ok" }

\* C19: whatever the interleaving of the concurrent calls, the fallback
\* model and the diarization model are each loaded at most once.
C19_LoadedAtMostOnce ==
    /\ Cardinality(SuccessfulLoads("whisperx")) <= 1
    /\ Cardinality(SuccessfulLoads("diarize")) <= 1

\* an entry of the history before entry i with one of the ops and the status
Earlier(i, ops, status) ==
    \E j \in 1..(i - 1) : trace[j].op \in ops /\ trace[j].status = status

\* C20: in every call preprocess_audio runs once, before any engine; the
\* fallback engine runs only after the primary one ran or was skipped as
\* not installed; the diarization runs only when speakers are requested and
\* after an engine returned a result, and it does run then before the
\* formatting; the formatting follows; the write is the last step.
C20_PipelineOrder ==
    /\ Cardinality({ i \in DOMAIN trace : trace[i].op = "preprocess" })
          = IF pc = "preprocess" THEN 0 ELSE 1
    /\ Cardinality({ i \in DOMAIN trace : trace[i].op = "mlx" }) <= 1
    /\ Cardinality({ i \in DOMAIN trace : trace[i].op = "whisperx" }) <= 1
    /\ \A i \in DOMAIN trace :
          /\ trace[i].op \in {"mlx", "whisperx"} =>
                Earlier(i, {"preprocess"}, "ok")
          /\ trace[i].op = "whisperx" =>
                (~ MLX_AVAILABLE \/ \E j \in 1..(i - 1) : trace[j].op = "mlx")
          /\ trace[i].op = "mlx" =>
                ~ \E j \in 1..(i - 1) : trace[j].op = "whisperx"
          /\ trace[i].op = "diarize" =>
                /\ include_speakers
                /\ Earlier(i, {"mlx", "whisperx"}, "ok")
          /\ trace[i].op = "format" =>
                /\ Earlier(i, {"mlx", "whisperx"}, "ok")
                /\ include_speakers =>
                      \E j \in 1..(i - 1) : trace[j].op = "diarize"
                /\ \A j \in DOMAIN trace : trace[j].op = "diarize" => j < i
          /\ trace[i].op = "write" =>
                /\ Earlier(i, {"format"}, "ok")
                /\ i = Len(trace)

\* C20 witness: a call that went through every stage: preprocessing, the
\* primary engine (raising), the fallback engine, the diarization, the
\* formatting and the write
C20_WitnessAllStages ==
    /\ pc = "done"
    /\ outcome.success
    /\ [i \in DOMAIN trace |-> trace[i].op] =
          << "call", "preprocess", "mlx", "whisperx", "diarize", "format",
             "write" >>

\* C21: when the call has returned success, the output file holds exactly
\* the rendering of the outcome's result in the requested format; for an
\* engine result with the single segment (0.0, 3.0, "test"), plain text and
\* no diarization, the file holds exactly "test".
C21_FileHoldsRendering ==
    (pc = "done" /\ outcome.success) =>
        /\ outputFile.exists
        /\ outcome.output_path = output_path
        /\ outputFile.content =
              format_output(outcome.result, output_format, include_speakers)
        /\ ( /\ get_segments(ChosenEngineValue) = << SegTest >>
             /\ output_format = "txt"
             /\ ~ include_speakers )
           => outputFile.content = << "test" >>

\* C21 witness: a successful plain-text call without diarization on the
\* single segment "test", over an output file left by an earlier run
C21_WitnessTestFile ==
    /\ pc = "done"
    /\ outcome.success
    /\ OutputBefore = FileWith(OldContent)
    /\ get_segments(ChosenEngineValue) = << SegTest >>
    /\ output_format = "txt"
    /\ ~ include_speakers
    /\ outputFile = FileWith(<< "test" >>)

\* C22: a timestamp is HH:MM:SS,mmm with zero-padded fields, cut off and not
\* rounded: hours, minutes (0..59) and seconds (0..59) of the whole seconds,
\* and milliseconds the floor of the fractional part times 1000 (0..999);
\* 125.4567 gives 00:02:05,456.
C22_TimestampTruncated ==
    pc = "stamped" =>
        LET whole == result \div Scale
            ms    == ((result % Scale) * 1000) \div Scale
        IN  /\ Len(formatted_result) = 12
            /\ formatted_result =
                  Pad(whole \div 3600, 2) \o << ":" >>
                  \o Pad((whole \div 60) % 60, 2) \o << ":" >>
                  \o Pad(whole % 60, 2) \o << "," >> \o Pad(ms, 3)
            /\ result = 1254567 =>
                  formatted_result = << "0", "0", ":", "0", "2", ":",
                                        "0", "5", ",", "4", "5", "6" >>

\* the formats format_output knows
Recognized == { "json", "srt", "txt" }

\* C23: an unrecognized output format never makes the call fail: format_output
\* returns the raw string form of the result, and transcribe_file writes it
\* to the file and returns success, unless the write meets an I/O failure of
\* the kind a recognized format meets too.
C23_UnknownFormatSucceeds ==
    (output_format \notin Recognized /\ pc = "done"
        /\ \E i \in DOMAIN trace : trace[i].op = "format") =>
        /\ Happened("format", "ok")
        /\ formatted_result = str_of(result)
        /\ \/ /\ outcome.success
              /\ outputFile = FileWith(str_of(result))
           \/ /\ ~ outcome.success
              /\ outcome.error \in { << "open failed" >>, << "write failed" >> }

\* json.loads, on the text json.dumps writes: tokens are read from position i,
\* a parse gives the value and the position after it
IsNumberToken(tok) == tok = "." \/ \E d \in DOMAIN Digit : Digit[d] = tok

DigitValue(tok) == (CHOOSE d \in DOMAIN Digit : Digit[d] = tok) - 1

SkipBlank(toks, i) == IF i <= Len(toks) /\ toks[i] = "\n" THEN i + 1 ELSE i

RECURSIVE DigitsValue(_, _, _)
\* the number the digits toks[a..b] write
DigitsValue(toks, a, b) ==
    IF a > b THEN 0
    ELSE 10 * DigitsValue(toks, a, b - 1) + DigitValue(toks[b])

RECURSIVE Pow10(_)
Pow10(n) == IF n = 0 THEN 1 ELSE 10 * Pow10(n - 1)

\* a number with a decimal point, as the float it denotes (in ticks)
json_number(toks, i) ==
    LET stop == CHOOSE j \in i..(Len(toks) + 1) :
                    /\ j > Len(toks) \/ ~ IsNumberToken(toks[j])
                    /\ \A k \in i..(j - 1) : IsNumberToken(toks[k])
        dot  == CHOOSE j \in i..(stop - 1) : toks[j] = "."
        places == stop - 1 - dot
    IN  [value |-> DigitsValue(toks, i, dot - 1) * Scale
                   + DigitsValue(toks, dot + 1, stop - 1)
                        * (Scale \div Pow10(places)),
         next  |-> stop]

json_unescape(tok) ==
    CASE tok = "\\\"" -> "\""
      [] tok = "\\\\" -> "\\"
      [] tok = "\\n" -> "\n"
      [] OTHER -> tok

\* a string: from the quote at i to the next quote
json_str(toks, i) ==
    LET close == CHOOSE j \in (i + 1)..Len(toks) :
                     /\ toks[j] = "\""
                     /\ \A k \in (i + 1)..(j - 1) : toks[k] # "\""
    IN  [value |-> IF close = i + 1 THEN "" ELSE json_unescape(toks[i + 1]),
         next  |-> close + 1]

RECURSIVE json_value(_, _)
RECURSIVE json_members(_, _, _)
RECURSIVE json_elements(_, _, _)
json_value(toks, i) ==
    CASE toks[i] = "{" -> json_members(toks, SkipBlank(toks, i + 1), EmptyDict)
      [] toks[i] = "[" -> json_elements(toks, SkipBlank(toks, i + 1), << >>)
      [] toks[i] = "\"" -> json_str(toks, i)
      [] OTHER -> json_number(toks, i)

\* the members of an object up to its closing brace
json_members(toks, i, members) ==
    IF toks[i] = "}" THEN [value |-> members, next |-> i + 1]
    ELSE LET key  == json_str(toks, i)
             val  == json_value(toks, key.next + 1)
             more == (key.value :> val.value) @@ members
         IN  IF toks[val.next] = ","
             THEN json_members(toks, SkipBlank(toks, val.next + 1), more)
             ELSE json_members(toks, val.next, more)

\* the elements of an array up to its closing bracket
json_elements(toks, i, elements) ==
    IF toks[i] = "]" THEN [value |-> elements, next |-> i + 1]
    ELSE LET val  == json_value(toks, i)
             more == Append(elements, val.value)
         IN  IF toks[val.next] = ","
             THEN json_elements(toks, SkipBlank(toks, val.next + 1), more)
             ELSE json_elements(toks, val.next, more)

json_loads(toks) == json_value(toks, 1).value

\* the fields of a segment the transcript consists of
EssentialKeys == { "text", "start", "end", "speaker" }

\* C24: rendering a result as json and parsing the text back gives the same
\* sequence of segments, each with equal text, start, end and speaker.
C24_JsonRoundTrip ==
    pc = "rendered" =>
        LET before == get_segments(result)
            after  == get_segments(json_loads(formatted_result))
        IN  /\ Len(after) = Len(before)
            /\ \A i \in DOMAIN before : \A k \in EssentialKeys :
                  /\ k \in DOMAIN after[i] <=> k \in DOMAIN before[i]
                  /\ k \in DOMAIN before[i] => after[i][k] = before[i][k]

\* a result of MaxSegments segments, with a fractional time, a speaker and a
\* text that needs escaping, has been rendered and parses back
C24_WitnessEscapedText ==
    /\ pc = "rendered"
    /\ Len(get_segments(result)) = MaxSegments
    /\ "speaker" \in DOMAIN result.segments[1]
    /\ result.segments[1].text = "\""
    /\ result.segments[1].end = 1254567
    /\ "speaker" \notin DOMAIN result.segments[MaxSegments]
    /\ result.segments[MaxSegments].text = "\n"
    /\ json_loads(formatted_result).segments = result.segments

\* the number of times the call has run the engine
Attempts(op) == Cardinality({ i \in DOMAIN trace : trace[i].op = op })

\* C25: when every external step returns or raises, a transcribe_file call
\* ends: it returns a success outcome (Done) or a failure outcome (Failed),
\* and by then it has tried each engine at most once.
C25_CallTerminates ==
    <>( /\ pc = "done"
        /\ outcome # None
        /\ outcome.success \in BOOLEAN
        /\ Attempts("mlx") <= 1
        /\ Attempts("whisperx") <= 1 )

\* a call that tried both engines, once each, has ended in Failed
C25_WitnessBothEnginesTried ==
    /\ pc = "done"
    /\ ~ outcome.success
    /\ Attempts("mlx") = 1
    /\ Attempts("whisperx") = 1
    /\ \A i \in DOMAIN EngineEvents : EngineEvents[i].status = "raised"

\* C26: the caller's input file is never deleted. When preprocessing returns
\* the input itself (no temporary file), the path it returns is the one the
\* cleanup compares with, and the call removes nothing; otherwise the cleanup
\* removes temporary files only. This holds when the call succeeds and when
\* it fails.
C26_InputNeverDeleted ==
    /\ audio_path.exists => audio_path.path \in files
    /\ (pc = "done" /\ audio_path.exists) =>
          /\ (processed_audio_path # NoneStr /\ TempsCreated = {}) =>
                /\ processed_audio_path = audio_path.path
                /\ files = { audio_path.path }
          /\ \A f \in ({ audio_path.path } \cup TempsCreated) \ files :
                f \in TempsCreated /\ f # audio_path.path

\* a call on a conformant input, named by the caller in another spelling than
\* the normalized one, took the fast path and failed; the input is there
C26_WitnessFastPathFailed ==
    /\ pc = "done"
    /\ ~ outcome.success
    /\ audio_path.given # audio_path.path
    /\ processed_audio_path = audio_path.path
    /\ TempsCreated = {}
    /\ files = { audio_path.path }

\* C27: in txt format, when the engine's result has a full text, the output
\* is that text, the same whether or not speaker labels were asked for and
\* whether or not the diarization labelled segments; a speaker prefix is
\* written only when the result has no full text.
C27_FullTextWins ==
    (output_format = "txt" /\ Happened("format", "ok")) =>
        /\ "text" \in DOMAIN ChosenEngineValue =>
              /\ formatted_result = << ChosenEngineValue.text >>
              /\ (pc = "done" /\ outcome.success) =>
                    outputFile.content = << ChosenEngineValue.text >>
        /\ (\E i \in DOMAIN formatted_result : formatted_result[i] = "[") =>
              "text" \notin DOMAIN result

\* speaker labels were asked for and set on the segments, and the file holds
\* the full text without them
C27_WitnessLabelsDropped ==
    /\ pc = "done"
    /\ outcome.success
    /\ output_format = "txt"
    /\ include_speakers
    /\ "text" \in DOMAIN result
    /\ \E i \in DOMAIN result.segments :
          /\ "speaker" \in DOMAIN result.segments[i]
          /\ result.segments[i].speaker \in Labels
    /\ outputFile.content = << result.text >>

\* the tests other than the optional-dependency one
RequiredTests ==
    { tests[i] : i \in DOMAIN tests } \ { "Optional Dependencies" }

\* C28: the installation test runner always completes its summary and
\* returns a boolean: it runs the eight tests in order, records a test that
\* raises as failed, and returns True exactly when every test passed, the
\* optional-dependency test never counting as a failure.
C28_RunnerReturnsVerdict ==
    /\ pc # "raised"
    /\ \A i \in DOMAIN trace : trace[i].op = tests[i]
    /\ \A i \in DOMAIN trace :
          trace[i].status = "raise" => result[trace[i].op] = "False"
    /\ pc = "returned" =>
          /\ Len(trace) = Len(tests)
          /\ outcome.value \in BOOLEAN
          /\ outcome.value <=>
                \A i \in DOMAIN trace :
                    trace[i].op \in RequiredTests => trace[i].status = "True"

=============================================================================
